---- MODULE Spec2Model ----
(***************************************************************************)
(* Aurora phone assistant (mehulcode12/aurora).                            *)
(*                                                                         *)
(* The specifications of this module:                                      *)
(*   SpecGen  AuroraLLM.generate_response as a pure function of the        *)
(*            history, the user input and the outcome of the remote call   *)
(*            (src/main.py and src/aurora_livekit.py variants);            *)
(*   Spec     the FastAPI call handlers of src/main.py over the            *)
(*            in-memory ConversationManager and the ActiveCallsManager;    *)
(*   SpecTwoCalls  the same handlers for two call SIDs;                    *)
(*   SpecSegmenter, SpecSynth  the utterance segmenter and the streaming   *)
(*            synthesizer with its playback sink, as spec.md describes     *)
(*            them (4.2, 4.5, 4.6);                                        *)
(*   SpecTelegram  TelegramBotManager.handle_text_message;                 *)
(*   SpecAuth  access tokens, /logout and the Redis blacklist;             *)
(*   SpecInactivity  TelegramInactivityManager.check_inactivity;           *)
(*   SpecStream  the event generator of the conversation stream;           *)
(*   SpecOtp  /get-otp and /verify-otp over the OTPs in Redis;             *)
(*   SpecHistory  workers, archived calls and who may read them;           *)
(*   SpecPolling  the polling loop of src/testing/telegram_api.py.         *)
(*                                                                         *)
(* Text is modelled at character level: a Python str is a sequence of      *)
(* one-character strings, indexes are 0-based as in Python.                *)
(***************************************************************************)
EXTENDS Integers, Sequences, FiniteSets, TLC

VARIABLES
    g_in,            \* SpecGen: the arguments of one generate_response call
    g_out,           \* SpecGen: result of the src/main.py variant
    g_lk,            \* SpecGen: result of the src/aurora_livekit.py variant
    conversations,   \* ConversationManager.conversations: call_sid -> entry
    active_calls,    \* ActiveCallsManager local store: call_id -> call + messages
    archiving,       \* call ids whose archive_and_cleanup thread is running
    last,            \* the request handled by the latest step and what it did
    ended,           \* call SIDs whose session has been ended
    generated,       \* per call SID, answers generated by the language model
    turns,           \* answers generated in total
    seg,             \* SpecSegmenter: the utterance segmenter
    syn,             \* SpecSynth: streaming synthesizer and playback sink
    tg,              \* SpecTelegram: the Telegram update being handled
    auth,            \* SpecAuth: clock, issued token, Redis blacklist
    inact,           \* SpecInactivity: clock and warned_conversations
    stream,          \* SpecStream: one run of event_generator
    otp,             \* SpecOtp: the OTPs in Redis and the /verify-otp requests
    hist,            \* SpecHistory: workers, archived calls and their readers
    poll             \* SpecPolling: the polling loop of testing/telegram_api.py

gvars == <<g_in, g_out, g_lk>>

svars == <<conversations, active_calls, archiving, last, ended, generated, turns>>

\* the components outside the call handlers
nvars == <<seg, syn, tg, auth, inact, stream, otp, hist, poll>>

vars == <<g_in, g_out, g_lk, conversations, active_calls, archiving, last,
          ended, generated, turns, seg, syn, tg, auth, inact, stream, otp, hist, poll>>

\* a component that takes no part in a specification
OFF == [on |-> FALSE]

ComponentsOff ==
    /\ seg = OFF
    /\ syn = OFF
    /\ tg = OFF
    /\ auth = OFF
    /\ inact = OFF
    /\ stream = OFF
    /\ otp = OFF
    /\ hist = OFF
    /\ poll = OFF

(***************************************************************************)
(* Bounds                                                                  *)
(***************************************************************************)
\* longest raw model output, in segments of RawSegments
MaxSegs == 4

\* Config.MAX_CONVERSATION_LENGTH is 20 in the source (src/main.py:121);
\* the handlers are checked for a small limit, every guard uses the name
MAX_CONVERSATION_LENGTH == 2

\* latest second at which a call is created
MaxTime == 1

\* answered turns in a behaviour of SpecTwoCalls
TwoCallTurns == 2

(***************************************************************************)
(* Python str operations used by the source                                *)
(***************************************************************************)
SetMin(S) == CHOOSE x \in S : \A y \in S : x <= y

SetMax(S) == CHOOSE x \in S : \A y \in S : x >= y

\* s.find(sub, start): lowest 0-based index >= start where sub occurs, else -1
Find(s, sub, start) ==
    LET hits == {i \in start..(Len(s) - Len(sub)) :
                    SubSeq(s, i + 1, i + Len(sub)) = sub}
    IN IF hits = {} THEN -1 ELSE SetMin(hits)

\* sub in s
Contains(s, sub) == Find(s, sub, 0) # -1

\* a slice bound as Python normalises it: negative counts from the end, clamped
SliceIndex(s, i) ==
    IF i < 0 THEN (IF Len(s) + i < 0 THEN 0 ELSE Len(s) + i)
    ELSE (IF i > Len(s) THEN Len(s) ELSE i)

\* s[a:b]
Slice(s, a, b) == SubSeq(s, SliceIndex(s, a) + 1, SliceIndex(s, b))

Whitespace == {" ", "\n", "\t"}

\* s.strip()
Strip(s) ==
    LET keep == {i \in 1..Len(s) : s[i] \notin Whitespace}
    IN IF keep = {} THEN <<>> ELSE SubSeq(s, SetMin(keep), SetMax(keep))

UpperLetters ==
    <<"A", "B", "C", "D", "E", "F", "G", "H", "I", "J", "K", "L", "M",
      "N", "O", "P", "Q", "R", "S", "T", "U", "V", "W", "X", "Y", "Z">>

LowerLetters ==
    <<"a", "b", "c", "d", "e", "f", "g", "h", "i", "j", "k", "l", "m",
      "n", "o", "p", "q", "r", "s", "t", "u", "v", "w", "x", "y", "z">>

LowerChar(c) ==
    IF \E i \in 1..26 : UpperLetters[i] = c
    THEN LowerLetters[CHOOSE i \in 1..26 : UpperLetters[i] = c]
    ELSE c

\* s.lower()
Lower(s) == [i \in 1..Len(s) |-> LowerChar(s[i])]

(***************************************************************************)
(* Literals of the source                                                  *)
(***************************************************************************)
URGENCY_TAG == <<"[", "U", "R", "G", "E", "N", "C", "Y", ":">>

SOURCES_TAG == <<"[", "S", "O", "U", "R", "C", "E", "S", ":">>

CLOSE == <<"]">>

CRITICAL == <<"c", "r", "i", "t", "i", "c", "a", "l">>

URGENT == <<"u", "r", "g", "e", "n", "t">>

NORMAL == <<"n", "o", "r", "m", "a", "l">>

ASSISTIVE == <<"a", "s", "s", "i", "s", "t", "i", "v", "e">>

valid_levels == {CRITICAL, URGENT, NORMAL, ASSISTIVE}

\* the prompts and the fixed fallback texts are opaque: one symbol each
SYSTEM_PROMPT == <<"You are Aurora ... [URGENCY: critical/urgent/normal/assistive] ...">>

SYSTEM_PROMPT_LIVEKIT == <<"You are Aurora, an AI emergency assistant ...">>

FALLBACK_MESSAGE == <<"Emergency system error. {Tokens per day limit exceeded - too many tokens processed.} Please call your supervisor at extension 9999 immediately.">>

FALLBACK_MESSAGE_LIVEKIT == <<"Emergency system error. Please call your supervisor at extension 9999 immediately.">>

FALLBACK_SOURCES == <<"Emergency Procedures Manual">>

MAX_TOKENS == 250

MAX_TOKENS_LIVEKIT == 150

urgent_keywords ==
    { <<"g", "a", "s">>, <<"l", "e", "a", "k">>, <<"f", "i", "r", "e">>,
      <<"i", "n", "j", "u", "r", "e", "d">>,
      <<"e", "m", "e", "r", "g", "e", "n", "c", "y">>,
      <<"h", "e", "l", "p">>, <<"d", "a", "n", "g", "e", "r">>,
      <<"s", "m", "o", "k", "e">>,
      <<"b", "l", "e", "e", "d", "i", "n", "g">>,
      <<"e", "x", "p", "l", "o", "s", "i", "o", "n">> }

\* outcomes of the remote call: it raised (network error, timeout, quota),
\* or it returned and content is the text of the first choice
LLM_RAISES == [ok |-> FALSE, content |-> <<>>]

LLM_RETURNS(content) == [ok |-> TRUE, content |-> content]

\* a call that has not been made
NOT_CALLED == [called |-> FALSE]

Called(result) == [called |-> TRUE] @@ result

Message(role, content) == [role |-> role, content |-> content]

(***************************************************************************)
(* AuroraLLM.generate_response, src/main.py                                *)
(* llm is the outcome of client.chat.completions.create.                   *)
(***************************************************************************)
\* the messages handed to the remote call
enhanced_messages(conversation_history, user_input) ==
    <<Message("system", SYSTEM_PROMPT)>>
        \o conversation_history
        \o <<Message("user", user_input)>>

\* the max_tokens argument of the remote call
max_tokens(user_input) == MAX_TOKENS

\* variant: the extracted level is returned without the valid_levels check
urgency_of_unvalidated(full_response) ==
    IF Contains(full_response, URGENCY_TAG)
    THEN LET urgency_start == Find(full_response, URGENCY_TAG, 0) + 9
             urgency_end == Find(full_response, CLOSE, urgency_start)
         IN Lower(Strip(Slice(full_response, urgency_start, urgency_end)))
    ELSE NORMAL

\* the urgency block of the parse
urgency_of(full_response) ==
    IF Contains(full_response, URGENCY_TAG)
    THEN LET urgency_start == Find(full_response, URGENCY_TAG, 0) + 9
             urgency_end == Find(full_response, CLOSE, urgency_start)
             urgency_level ==
                 Lower(Strip(Slice(full_response, urgency_start, urgency_end)))
         IN IF urgency_level \notin valid_levels THEN NORMAL ELSE urgency_level
    ELSE NORMAL

\* the sources block of the parse ([] and "" are both the empty sequence)
sources_of(full_response) ==
    IF Contains(full_response, SOURCES_TAG)
    THEN LET sources_start == Find(full_response, SOURCES_TAG, 0) + 9
             sources_end == Find(full_response, CLOSE, sources_start)
         IN Strip(Slice(full_response, sources_start, sources_end))
    ELSE <<>>

\* the text kept for the caller: cut at the first tag of each kind
cut_at(text, tag) ==
    IF Contains(text, tag)
    THEN Strip(Slice(text, 0, Find(text, tag, 0)))
    ELSE text

\* variant: only the urgency tag is cut
assistant_message_urgency_only(full_response) ==
    cut_at(full_response, URGENCY_TAG)

assistant_message_of(full_response) ==
    cut_at(cut_at(full_response, URGENCY_TAG), SOURCES_TAG)

\* variant: the except branch answers with the default level
llm_error_result_normal ==
    [message |-> FALLBACK_MESSAGE, urgency |-> NORMAL,
     sources |-> FALLBACK_SOURCES, raised |-> FALSE]

\* what the except branch returns; raised tells whether the exception
\* leaves generate_response
llm_error_result ==
    [message |-> FALLBACK_MESSAGE, urgency |-> CRITICAL,
     sources |-> FALLBACK_SOURCES, raised |-> FALSE]

generate_response(conversation_history, user_input, llm) ==
    LET request == [messages |-> enhanced_messages(conversation_history, user_input),
                    max_tokens |-> max_tokens(user_input)]
    IN IF llm = LLM_RAISES
       THEN [request |-> request] @@ llm_error_result
       ELSE [request |-> request,
             message |-> assistant_message_of(llm.content),
             urgency |-> urgency_of(llm.content),
             sources |-> sources_of(llm.content),
             raised |-> FALSE]

(***************************************************************************)
(* AuroraLLM.generate_response, src/aurora_livekit.py (two-value variant)  *)
(***************************************************************************)
is_urgent(user_input) ==
    \E keyword \in urgent_keywords : Contains(Lower(user_input), keyword)

\* variant: a smaller budget when an urgent keyword is present
max_tokens_by_keyword(user_input) ==
    IF is_urgent(user_input) THEN 100 ELSE MAX_TOKENS_LIVEKIT

max_tokens_livekit(user_input) == MAX_TOKENS_LIVEKIT

llm_error_result_livekit ==
    [message |-> FALLBACK_MESSAGE_LIVEKIT, is_urgent |-> TRUE, raised |-> FALSE]

generate_response_livekit(conversation_history, user_input, llm) ==
    LET messages == <<Message("system", SYSTEM_PROMPT_LIVEKIT)>>
                        \o conversation_history
                        \o <<Message("user", user_input)>>
        request == [messages |-> messages,
                    max_tokens |-> max_tokens_livekit(user_input)]
    IN IF llm = LLM_RAISES
       THEN [request |-> request] @@ llm_error_result_livekit
       ELSE [request |-> request, message |-> llm.content,
             is_urgent |-> is_urgent(user_input), raised |-> FALSE]

(***************************************************************************)
(* ConversationManager, src/main.py                                        *)
(* conversations is the dict: a function whose domain is the set of call   *)
(* SIDs that have an entry (start_time is not modelled).                   *)
(***************************************************************************)
Sids == {"CA1", "CA2"}

NO_SID == "-"

new_conversation == [history |-> <<>>, exchange_count |-> 0, critical_alerts |-> <<>>]

Put(f, k, v) == [x \in DOMAIN f \cup {k} |-> IF x = k THEN v ELSE f[x]]

Remove(f, k) == [x \in DOMAIN f \ {k} |-> f[x]]

get_conversation(convs, call_sid) ==
    IF call_sid \notin DOMAIN convs
    THEN Put(convs, call_sid, new_conversation)
    ELSE convs

\* variant: the message lands in every conversation (one shared history)
add_message_shared(convs, call_sid, role, content) ==
    LET c == get_conversation(convs, call_sid)
    IN [x \in DOMAIN c |->
          [c[x] EXCEPT !.history = Append(@, Message(role, content)),
                       !.exchange_count = IF role = "user" THEN @ + 1 ELSE @]]

add_message(convs, call_sid, role, content) ==
    LET c == get_conversation(convs, call_sid)
    IN [c EXCEPT ![call_sid].history = Append(@, Message(role, content)),
                 ![call_sid].exchange_count = IF role = "user" THEN @ + 1 ELSE @]

get_history(convs, call_sid) == get_conversation(convs, call_sid)[call_sid].history

add_critical_alert(convs, call_sid, alert) ==
    LET c == get_conversation(convs, call_sid)
    IN [c EXCEPT ![call_sid].critical_alerts = Append(@, alert)]

\* variant: the summary is logged but the entry is kept
end_conversation_keeps_entry(convs, call_sid) == convs

\* the log file is written and the entry deleted; no entry, nothing happens
end_conversation(convs, call_sid) ==
    IF call_sid \in DOMAIN convs THEN Remove(convs, call_sid) ELSE convs

(***************************************************************************)
(* ActiveCallsManager, src/main.py: the local JSON store                   *)
(* A call id is call_<phone>_<second>: the pair <<phone, second>>.  The    *)
(* conversation of a call (conv_<phone>_<second>) is kept in the call's    *)
(* record as messages.  The realtime database is outside the model: its    *)
(* answer to the existence lookup is an input (fb_found).  The clock is an *)
(* input too: datetime.now() never runs backwards, so a new call is made   *)
(* at a second not before that of any call in the store (Seconds).         *)
(***************************************************************************)
Phones == {"+15550001"}

\* From was not sent with the request
NO_FROM == "None"

_generate_call_id(phone_number, time) == <<phone_number, time>>

\* the seconds datetime.now() can show, given the calls made so far
Seconds(calls) ==
    {t \in 0..MaxTime : \A id \in DOMAIN calls : id[2] <= t}

ActiveCallsOf(calls, phone_number) ==
    {id \in DOMAIN calls :
        calls[id].mobile_no = phone_number /\ calls[id].status = "ACTIVE"}

FirstCreated(ids) == CHOOSE id \in ids : \A other \in ids : id[2] <= other[2]

\* the first ACTIVE call of the phone number in dict order, or NO_CALL
NO_CALL == <<"-", -1>>

find_active_call_by_phone(calls, phone_number) ==
    IF ActiveCallsOf(calls, phone_number) = {} THEN NO_CALL
    ELSE FirstCreated(ActiveCallsOf(calls, phone_number))

add_conversation_entry(calls, phone_number, user_query, aurora_response, urgency_level, sources, fb_found, time) ==
    LET found == find_active_call_by_phone(calls, phone_number)
        existing_call_id == IF found # NO_CALL /\ fb_found THEN found ELSE NO_CALL
        call_id == IF existing_call_id # NO_CALL THEN existing_call_id
                   ELSE _generate_call_id(phone_number, time)
        opened == IF existing_call_id # NO_CALL THEN calls
                  ELSE Put(calls, call_id,
                           [mobile_no |-> phone_number, status |-> "ACTIVE",
                            urgency |-> urgency_level, messages |-> <<>>])
    IN [opened EXCEPT
          ![call_id].messages =
              @ \o <<[role |-> "user", content |-> user_query, sources |-> <<>>],
                     [role |-> "assistant", content |-> aurora_response,
                      sources |-> sources]>>,
          ![call_id].urgency = urgency_level]

\* the local part of end_call; the archive thread is started by the handler
end_call(calls, call_id) ==
    IF call_id \in DOMAIN calls
    THEN [calls EXCEPT ![call_id].status = "ENDED"]
    ELSE calls

(***************************************************************************)
(* Initial state of the server                                             *)
(***************************************************************************)
NO_REQUEST ==
    [op |-> "none", sid |-> NO_SID, speech |-> <<>>, llm_called |-> FALSE,
     request |-> [messages |-> <<>>, max_tokens |-> 0], reply |-> "none"]

ServerInit ==
    /\ conversations = << >>
    /\ active_calls = << >>
    /\ archiving = {}
    /\ last = NO_REQUEST
    /\ ended = {}
    /\ generated = [s \in Sids |-> 0]
    /\ turns = 0

(***************************************************************************)
(* Inputs of SpecGen                                                       *)
(***************************************************************************)
RawSegments ==
    { URGENCY_TAG, SOURCES_TAG, CLOSE,
      <<" ", "c", "r", "i", "t", "i", "c", "a", "l">>,
      <<" ", "U", "R", "G", "E", "N", "T", " ">>,
      <<"x">> }

RECURSIVE Concat(_)
Concat(segs) == IF segs = <<>> THEN <<>> ELSE Head(segs) \o Concat(Tail(segs))

\* every concatenation of at most MaxSegs segments
RawOutputs ==
    {Concat(segs) : segs \in UNION {[1..n -> RawSegments] : n \in 0..MaxSegs}}

GenUserInputs ==
    { <<"o", "k", " ", "n", "o", "w">>,
      <<"F", "i", "r", "e", "!">>,
      <<"g", "a", "s", " ", "l", "e", "a", "k">> }

GenHistories ==
    { <<>>,
      <<Message("user", <<"h", "i", " ", "a", "l", "l">>),
        Message("assistant", <<"O", "k", ".">>)>> }

GenInit ==
    /\ g_in \in [history : GenHistories, user_input : GenUserInputs,
                 llm : {LLM_RAISES} \cup {LLM_RETURNS(raw) : raw \in RawOutputs}]
    /\ g_out = NOT_CALLED
    /\ g_lk = NOT_CALLED
    /\ ServerInit
    /\ ComponentsOff

\* one call of the src/main.py variant
GenerateMain ==
    /\ ~g_out.called
    /\ g_out' = Called(generate_response(g_in.history, g_in.user_input, g_in.llm))
    /\ UNCHANGED <<g_in, g_lk>>
    /\ UNCHANGED <<svars, nvars>>

\* one call of the src/aurora_livekit.py variant
GenerateLivekit ==
    /\ ~g_lk.called
    /\ g_lk' = Called(generate_response_livekit(g_in.history, g_in.user_input, g_in.llm))
    /\ UNCHANGED <<g_in, g_out>>
    /\ UNCHANGED <<svars, nvars>>

GenNext == GenerateMain \/ GenerateLivekit

SpecGen == GenInit /\ [][GenNext]_vars

(***************************************************************************)
(* The call handlers of src/main.py.  Each handler is an async def with    *)
(* no await in its body, so requests are served one at a time.             *)
(***************************************************************************)
\* the answers of the remote call the handlers are driven with
LLMOutcomes ==
    { LLM_RAISES,
      LLM_RETURNS(<<"O", "k", ".", " ">> \o URGENCY_TAG
                    \o <<" ", "n", "o", "r", "m", "a", "l">> \o CLOSE) }

\* SpeechResult values: nothing, blank-padded single letter, a sentence
SpeechResults ==
    { <<>>, <<" ", "a", " ">>, <<"h", "e", "l", "p", " ", "m", "e">> }

TERMINAL_STATUSES == {"completed", "failed", "busy", "no-answer"}

CallStatuses == {"completed", "in-progress"}

MIN_SPEECH_LENGTH == 3

\* answered turns a behaviour may hold
MaxTurns == MAX_CONVERSATION_LENGTH + 1

\* variant: the limit test is off by one
limit_reached_after(conv) == conv.exchange_count > MAX_CONVERSATION_LENGTH

\* conv["exchange_count"] >= config.MAX_CONVERSATION_LENGTH
limit_reached(conv) == conv.exchange_count >= MAX_CONVERSATION_LENGTH

\* variant: the length is taken without strip()
too_short_unstripped(speech) == speech = <<>> \/ Len(speech) < MIN_SPEECH_LENGTH

\* not SpeechResult or len(SpeechResult.strip()) < 3
too_short(speech) == speech = <<>> \/ Len(Strip(speech)) < MIN_SPEECH_LENGTH

Request(op, sid, speech) ==
    [op |-> op, sid |-> sid, speech |-> speech, llm_called |-> FALSE,
     request |-> [messages |-> <<>>, max_tokens |-> 0], reply |-> "none"]

\* POST /incoming-call
incoming_call(CallSid) ==
    /\ conversations' = get_conversation(conversations, CallSid)
    /\ last' = [Request("incoming_call", CallSid, <<>>) EXCEPT !.reply = "greeting"]
    /\ UNCHANGED <<active_calls, archiving, ended, generated, turns>>

\* POST /process-speech, the branch taken at the conversation limit
process_speech_limit(CallSid, SpeechResult) ==
    LET created == get_conversation(conversations, CallSid)
    IN /\ limit_reached(created[CallSid])
       /\ conversations' = end_conversation(created, CallSid)
       /\ ended' = ended \cup {CallSid}
       /\ last' = [Request("process_speech", CallSid, SpeechResult)
                      EXCEPT !.reply = "limit"]
       /\ UNCHANGED <<active_calls, archiving, generated, turns>>

\* POST /process-speech, the branch for speech that cannot be used
process_speech_unclear(CallSid, SpeechResult) ==
    LET created == get_conversation(conversations, CallSid)
    IN /\ ~limit_reached(created[CallSid])
       /\ too_short(SpeechResult)
       /\ conversations' = created
       /\ last' = [Request("process_speech", CallSid, SpeechResult)
                      EXCEPT !.reply = "reprompt"]
       /\ UNCHANGED <<active_calls, archiving, ended, generated, turns>>

\* POST /process-speech, the branch that answers
process_speech_answer(CallSid, SpeechResult, From, llm, fb_found, time) ==
    LET created == get_conversation(conversations, CallSid)
        with_user == add_message(created, CallSid, "user", SpeechResult)
        conversation_history == get_history(with_user, CallSid)
        result == generate_response(conversation_history, SpeechResult, llm)
        with_reply == add_message(with_user, CallSid, "assistant", result.message)
        alert == [worker_message |-> SpeechResult,
                  aurora_response |-> result.message,
                  urgency_level |-> result.urgency,
                  sources |-> result.sources]
    IN /\ ~limit_reached(created[CallSid])
       /\ ~too_short(SpeechResult)
       /\ conversations' =
              IF result.urgency \in {CRITICAL, URGENT}
              THEN add_critical_alert(with_reply, CallSid, alert)
              ELSE with_reply
       /\ active_calls' =
              add_conversation_entry(active_calls, From, SpeechResult,
                                     result.message, result.urgency,
                                     result.sources, fb_found, time)
       /\ last' = [Request("process_speech", CallSid, SpeechResult)
                      EXCEPT !.llm_called = TRUE,
                             !.request = result.request,
                             !.reply = "answer"]
       /\ generated' = [generated EXCEPT ![CallSid] = @ + 1]
       /\ turns' = turns + 1
       /\ UNCHANGED <<archiving, ended>>

process_speech(CallSid, SpeechResult, From, llm, fb_found, time) ==
    \/ process_speech_limit(CallSid, SpeechResult)
    \/ process_speech_unclear(CallSid, SpeechResult)
    \/ process_speech_answer(CallSid, SpeechResult, From, llm, fb_found, time)

\* POST /api/process-speech (no call SID), the branch for unusable speech
api_process_speech_unclear(speech_result) ==
    /\ too_short(speech_result)
    /\ last' = [Request("api_process_speech", NO_SID, speech_result)
                   EXCEPT !.reply = "reprompt"]
    /\ UNCHANGED <<conversations, active_calls, archiving, ended, generated, turns>>

\* POST /api/process-speech, the branch that answers: an empty history
api_process_speech_answer(speech_result, phone_number, llm, fb_found, time) ==
    LET result == generate_response(<<>>, speech_result, llm)
    IN /\ ~too_short(speech_result)
       /\ active_calls' =
              add_conversation_entry(active_calls, phone_number, speech_result,
                                     result.message, result.urgency,
                                     result.sources, fb_found, time)
       /\ last' = [Request("api_process_speech", NO_SID, speech_result)
                      EXCEPT !.llm_called = TRUE,
                             !.request = result.request,
                             !.reply = "answer"]
       /\ turns' = turns + 1
       /\ UNCHANGED <<conversations, archiving, ended, generated>>

api_process_speech(speech_result, phone_number, llm, fb_found, time) ==
    \/ api_process_speech_unclear(speech_result)
    \/ api_process_speech_answer(speech_result, phone_number, llm, fb_found, time)

\* the part call_status and hangup share: archive the caller's active call
archive_call_of(From) ==
    LET call_id == IF From = NO_FROM THEN NO_CALL
                   ELSE find_active_call_by_phone(active_calls, From)
    IN IF call_id # NO_CALL
       THEN /\ active_calls' = end_call(active_calls, call_id)
            /\ archiving' = archiving \cup {call_id}
       ELSE UNCHANGED <<active_calls, archiving>>

\* POST /call-status
call_status(CallSid, CallStatus, From) ==
    /\ IF CallStatus \in TERMINAL_STATUSES
       THEN /\ conversations' = end_conversation(conversations, CallSid)
            /\ ended' = ended \cup {CallSid}
            /\ archive_call_of(From)
       ELSE UNCHANGED <<conversations, ended, active_calls, archiving>>
    /\ last' = [Request("call_status", CallSid, <<>>)
                   EXCEPT !.reply = IF CallStatus \in TERMINAL_STATUSES
                                    THEN "ended" ELSE "none"]
    /\ UNCHANGED <<generated, turns>>

\* POST /hangup
hangup(CallSid, From) ==
    /\ conversations' = end_conversation(conversations, CallSid)
    /\ ended' = ended \cup {CallSid}
    /\ archive_call_of(From)
    /\ last' = [Request("hangup", CallSid, <<>>) EXCEPT !.reply = "ended"]
    /\ UNCHANGED <<generated, turns>>

\* the thread end_call starts: after archiving it drops the call locally
archive_and_cleanup(call_id) ==
    /\ call_id \in archiving
    /\ active_calls' = Remove(active_calls, call_id)
    /\ archiving' = archiving \ {call_id}
    /\ last' = Request("archive_and_cleanup", NO_SID, <<>>)
    /\ UNCHANGED <<conversations, ended, generated, turns>>

Init ==
    /\ ServerInit
    /\ g_in = [history |-> <<>>, user_input |-> <<>>, llm |-> LLM_RAISES]
    /\ g_out = NOT_CALLED
    /\ g_lk = NOT_CALLED
    /\ ComponentsOff

\* The requests a server receives for the call SIDs of S; budget bounds
\* the answered turns of a behaviour.
IncomingCall(S) ==
    /\ \E CallSid \in S : incoming_call(CallSid)
    /\ UNCHANGED <<gvars, nvars>>

ProcessSpeechLimit(S) ==
    /\ \E CallSid \in S, SpeechResult \in SpeechResults :
          process_speech_limit(CallSid, SpeechResult)
    /\ UNCHANGED <<gvars, nvars>>

ProcessSpeechUnclear(S) ==
    /\ \E CallSid \in S, SpeechResult \in SpeechResults :
          process_speech_unclear(CallSid, SpeechResult)
    /\ UNCHANGED <<gvars, nvars>>

ProcessSpeechAnswer(S, budget) ==
    /\ turns < budget
    /\ \E CallSid \in S, SpeechResult \in SpeechResults, From \in Phones,
          llm \in LLMOutcomes, fb_found \in BOOLEAN,
          time \in Seconds(active_calls) :
          process_speech_answer(CallSid, SpeechResult, From, llm, fb_found, time)
    /\ UNCHANGED <<gvars, nvars>>

ApiProcessSpeechUnclear ==
    /\ \E speech_result \in SpeechResults :
          api_process_speech_unclear(speech_result)
    /\ UNCHANGED <<gvars, nvars>>

ApiProcessSpeechAnswer(budget) ==
    /\ turns < budget
    /\ \E speech_result \in SpeechResults, phone_number \in Phones,
          llm \in LLMOutcomes, fb_found \in BOOLEAN,
          time \in Seconds(active_calls) :
          api_process_speech_answer(speech_result, phone_number, llm,
                                    fb_found, time)
    /\ UNCHANGED <<gvars, nvars>>

CallStatus(S) ==
    /\ \E CallSid \in S, Status \in CallStatuses, From \in Phones \cup {NO_FROM} :
          call_status(CallSid, Status, From)
    /\ UNCHANGED <<gvars, nvars>>

Hangup(S) ==
    /\ \E CallSid \in S, From \in Phones \cup {NO_FROM} : hangup(CallSid, From)
    /\ UNCHANGED <<gvars, nvars>>

ArchiveAndCleanup ==
    /\ \E call_id \in archiving : archive_and_cleanup(call_id)
    /\ UNCHANGED <<gvars, nvars>>

\* one call
OneCall == {"CA1"}

Next ==
    \/ IncomingCall(OneCall)
    \/ ProcessSpeechLimit(OneCall)
    \/ ProcessSpeechUnclear(OneCall)
    \/ ProcessSpeechAnswer(OneCall, MaxTurns)
    \/ ApiProcessSpeechUnclear
    \/ ApiProcessSpeechAnswer(MaxTurns)
    \/ CallStatus(OneCall)
    \/ Hangup(OneCall)
    \/ ArchiveAndCleanup

Spec == Init /\ [][Next]_vars

\* two calls at the same time
NextTwoCalls ==
    \/ IncomingCall(Sids)
    \/ ProcessSpeechLimit(Sids)
    \/ ProcessSpeechUnclear(Sids)
    \/ ProcessSpeechAnswer(Sids, TwoCallTurns)
    \/ ApiProcessSpeechUnclear
    \/ ApiProcessSpeechAnswer(TwoCallTurns)
    \/ CallStatus(Sids)
    \/ Hangup(Sids)
    \/ ArchiveAndCleanup

SpecTwoCalls == Init /\ [][NextTwoCalls]_vars

(***************************************************************************)
(* Claims about generate_response (checked under SpecGen)                  *)
(***************************************************************************)
\* C1: when the remote call raises, generate_response does not raise; it
\* returns the fixed fallback message and the most urgent classification
\* ("critical", is_urgent = TRUE in the two-value variant), whatever the
\* history and the user input.
C1_FallbackOnLLMFailure ==
    ~g_in.llm.ok =>
        /\ g_out.called =>
              /\ ~g_out.raised
              /\ g_out.message = FALLBACK_MESSAGE
              /\ g_out.urgency = CRITICAL
        /\ g_lk.called =>
              /\ ~g_lk.raised
              /\ g_lk.message = FALLBACK_MESSAGE_LIVEKIT
              /\ g_lk.is_urgent = TRUE

\* the remote call failed for an input without urgent keyword, both variants ran
C1_Witness ==
    /\ ~g_in.llm.ok
    /\ g_out.called /\ g_lk.called
    /\ ~is_urgent(g_in.user_input)
    /\ g_in.history # <<>>

\* the urgency tag as the claims read it: present, closed by a later "]",
\* and its value the text in between, trimmed and case-folded
OccursAt(text, word) ==
    {i \in 1..(Len(text) - Len(word) + 1) :
        \A k \in 1..Len(word) : text[i + k - 1] = word[k]}

TagPresent(raw) == OccursAt(raw, URGENCY_TAG) # {}

\* number of characters up to and including the first tag
TagStart(raw) == SetMin(OccursAt(raw, URGENCY_TAG)) + 8

TagClosed(raw) ==
    TagPresent(raw) /\ \E j \in (TagStart(raw) + 1)..Len(raw) : raw[j] = "]"

TagValue(raw) ==
    LET close == SetMin({j \in (TagStart(raw) + 1)..Len(raw) : raw[j] = "]"})
    IN Lower(Strip(SubSeq(raw, TagStart(raw) + 1, close - 1)))

C3_TagsStripped ==
    g_out.called =>
        /\ OccursAt(g_out.message, URGENCY_TAG) = {}
        /\ OccursAt(g_out.message, SOURCES_TAG) = {}

\* the sources tag came before the urgency tag, after some text
C3_Witness ==
    /\ g_in.llm.ok /\ g_out.called
    /\ Contains(g_in.llm.content, SOURCES_TAG)
    /\ Contains(g_in.llm.content, URGENCY_TAG)
    /\ Find(g_in.llm.content, SOURCES_TAG, 0) < Find(g_in.llm.content, URGENCY_TAG, 0)
    /\ Find(g_in.llm.content, SOURCES_TAG, 0) > 0
    /\ g_out.message # <<>>

\* an urgency-priority keyword occurs in the input (case-insensitive)
HasUrgentKeyword(user_input) ==
    \E keyword \in urgent_keywords : OccursAt(Lower(user_input), keyword) # {}

\* C7 as stated: with an urgent keyword in the input the budget passed to
\* the remote call is not the default budget.
C7_UrgentBudgetOnKeyword ==
    /\ (g_out.called /\ HasUrgentKeyword(g_in.user_input))
          => g_out.request.max_tokens # MAX_TOKENS
    /\ (g_lk.called /\ HasUrgentKeyword(g_in.user_input))
          => g_lk.request.max_tokens # MAX_TOKENS_LIVEKIT

\* C7 amended: the budget passed to the remote call is the same fixed
\* number with and without urgent keyword: 250 in src/main.py, 150 in
\* src/aurora_livekit.py.
C7_BudgetIsFixed ==
    /\ g_out.called => g_out.request.max_tokens = 250
    /\ g_lk.called => g_lk.request.max_tokens = 150

\* both variants were called with an input holding an urgent keyword
C7_Witness ==
    /\ g_out.called /\ g_lk.called
    /\ HasUrgentKeyword(g_in.user_input)
    /\ g_in.llm.ok

(***************************************************************************)
(* Claims about the call handlers (checked under Spec and SpecTwoCalls)    *)
(***************************************************************************)
\* what a session holds; a call SID without entry holds nothing
View(convs, sid) == IF sid \in DOMAIN convs THEN convs[sid] ELSE new_conversation

\* text that is empty or has fewer than 3 characters between its first and
\* its last non-blank character
Unusable(speech) ==
    LET solid == {i \in 1..Len(speech) : speech[i] \notin {" ", "\t", "\n"}}
    IN \/ solid = {}
       \/ \A i \in solid, j \in solid : j - i + 1 < 3

\* a turn with unusable text leaves everything as it was
TurnDropped ==
    /\ ~last'.llm_called
    /\ last'.reply # "answer"
    /\ View(conversations', last'.sid) = View(conversations, last'.sid)
    /\ active_calls' = active_calls

\* C4 as stated: a turn whose text is empty or shorter than 3 characters
\* after stripping is dropped: no call of the language model, no answer,
\* history, exchange count, critical alerts and active-call store unchanged.
C4_ShortTurnDropped ==
    [][(last'.op \in {"process_speech", "api_process_speech"}
          /\ Unusable(last'.speech)) => TurnDropped]_vars

\* C4 amended: the same, for a session that has not reached
\* MAX_CONVERSATION_LENGTH exchanges (at the limit /process-speech ends the
\* session before it looks at the text).
C4_ShortTurnDroppedBelowLimit ==
    [][(/\ last'.op \in {"process_speech", "api_process_speech"}
        /\ Unusable(last'.speech)
        /\ View(conversations, last'.sid).exchange_count < MAX_CONVERSATION_LENGTH)
         => TurnDropped]_vars

\* a blank-padded single letter was dropped in a session that has a turn
C4_Witness ==
    /\ last.op = "process_speech"
    /\ last.speech = <<" ", "a", " ">>
    /\ last.reply = "reprompt"
    /\ last.sid \in DOMAIN conversations
    /\ conversations[last.sid].exchange_count = 1
    /\ active_calls # << >>

C6_RequestShape ==
    [][last'.llm_called =>
          last'.request.messages =
              <<Message("system", SYSTEM_PROMPT)>>
                  \o View(conversations, last'.sid).history
                  \o <<Message("user", last'.speech)>>]_vars

\* the session-ending requests: terminal call-status, /hangup, cut-off
SessionEnded(request) == request.reply \in {"ended", "limit"}

C9_MaxExchangesPerCall ==
    \A sid \in Sids :
        /\ generated[sid] <= MAX_CONVERSATION_LENGTH
        /\ View(conversations, sid).exchange_count <= MAX_CONVERSATION_LENGTH

\* C10: a request for one call SID leaves the entry of every other call
\* SID (history, exchange count, critical alerts) as it was.
C10_SessionsIsolated ==
    [][\A other \in Sids :
          other # last'.sid =>
              /\ (other \in DOMAIN conversations') = (other \in DOMAIN conversations)
              /\ View(conversations', other) = View(conversations, other)]_vars

\* a turn of CA1 was answered, or CA1 was ended, while CA2 held a history
C10_Witness ==
    /\ last.sid = "CA1"
    /\ last.reply \in {"answer", "ended"}
    /\ "CA2" \in DOMAIN conversations
    /\ conversations["CA2"].history # <<>>
    /\ conversations["CA2"].critical_alerts # <<>>

(***************************************************************************)
(* UtteranceSegmenter, spec.md 4.2                                         *)
(* The segmenter is not among the source files; it is modelled from the    *)
(* state machine of spec.md 4.2.  seg holds its configuration, its state   *)
(* (IDLE or ACCUMULATING), the open utterance, the silence counter, the    *)
(* utterances handed to the transcriber (emitted) and, as the input record *)
(* of the run, the classified frames it was given (fed).                   *)
(***************************************************************************)
\* frames given to the segmenter in one run
MaxFrames == 9

\* frame and silence durations (ms) the segmenter is configured with
SegmenterConfigs ==
    [FRAME_DURATION_MS : {20, 30}, SILENCE_DURATION_MS : {30, 50, 70}]

IDLE == "IDLE"

ACCUMULATING == "ACCUMULATING"

AudioFrame(index, is_speech) == [index |-> index, is_speech |-> is_speech]

\* variant: the threshold is rounded down
finalize_threshold_floor(config) ==
    config.SILENCE_DURATION_MS \div config.FRAME_DURATION_MS

\* ceil(SILENCE_DURATION_MS / FRAME_DURATION_MS)
finalize_threshold(config) ==
    (config.SILENCE_DURATION_MS + config.FRAME_DURATION_MS - 1)
        \div config.FRAME_DURATION_MS

\* variant: the frame that starts the utterance is not kept
start_utterance_empty(frame) == << >>

\* IDLE + speech frame: start new Utterance, append frame
start_utterance(frame) == <<frame>>

new_segmenter(config) ==
    [on |-> TRUE, config |-> config, state |-> IDLE, utterance |-> << >>,
     silence_counter |-> 0, emitted |-> << >>, fed |-> << >>]

\* one classified frame consumed by the segmenter
on_frame(s, frame) ==
    LET counted == s.silence_counter + 1
    IN CASE s.state = IDLE /\ frame.is_speech ->
               [s EXCEPT !.state = ACCUMULATING,
                         !.utterance = start_utterance(frame),
                         !.silence_counter = 0]
         [] s.state = ACCUMULATING /\ frame.is_speech ->
               [s EXCEPT !.utterance = Append(@, frame),
                         !.silence_counter = 0]
         [] s.state = ACCUMULATING /\ ~frame.is_speech
                /\ counted < finalize_threshold(s.config) ->
               [s EXCEPT !.utterance = Append(@, frame),
                         !.silence_counter = counted]
         [] s.state = ACCUMULATING /\ ~frame.is_speech
                /\ counted >= finalize_threshold(s.config) ->
               [s EXCEPT !.emitted = Append(@, s.utterance),
                         !.state = IDLE,
                         !.utterance = << >>,
                         !.silence_counter = 0]
         [] OTHER -> s

HandlersOff ==
    /\ ServerInit
    /\ g_in = [history |-> <<>>, user_input |-> <<>>, llm |-> LLM_RAISES]
    /\ g_out = NOT_CALLED
    /\ g_lk = NOT_CALLED

SegmenterInit ==
    /\ seg \in {new_segmenter(config) : config \in SegmenterConfigs}
    /\ syn = OFF
    /\ tg = OFF
    /\ auth = OFF
    /\ inact = OFF
    /\ stream = OFF
    /\ otp = OFF
    /\ hist = OFF
    /\ poll = OFF
    /\ HandlersOff

\* the capture queue delivers the next frame, speech or silence
Frame ==
    /\ Len(seg.fed) < MaxFrames
    /\ \E is_speech \in BOOLEAN :
          LET frame == AudioFrame(Len(seg.fed) + 1, is_speech)
          IN seg' = [on_frame(seg, frame) EXCEPT !.fed = Append(seg.fed, frame)]
    /\ UNCHANGED <<gvars, svars, syn, tg, auth, inact, stream, otp, hist, poll>>

SegmenterNext == Frame

SpecSegmenter == SegmenterInit /\ [][SegmenterNext]_vars

(***************************************************************************)
(* Claims on the segmenter (SpecSegmenter)                                 *)
(***************************************************************************)
\* least number of frames whose total duration reaches the silence threshold
SilenceFramesNeeded(config) ==
    CHOOSE n \in 1..config.SILENCE_DURATION_MS :
        /\ n * config.FRAME_DURATION_MS >= config.SILENCE_DURATION_MS
        /\ (n - 1) * config.FRAME_DURATION_MS < config.SILENCE_DURATION_MS

\* length of the run of silence frames that ends the frames fed[1..n]
TrailingSilence(fed, n) ==
    IF \A i \in 1..n : ~fed[i].is_speech THEN n
    ELSE n - SetMax({i \in 1..n : fed[i].is_speech})

\* frame n completes, for the first time since the last speech frame, a run
\* of silence that reaches the threshold, and speech came before the run
Finalizes(config, fed, n) ==
    /\ TrailingSilence(fed, n) = SilenceFramesNeeded(config)
    /\ TrailingSilence(fed, n) < n

\* C11: an Utterance is finalized if and only if it was started by a speech
\* frame and is followed by trailing silence frames whose count times the
\* frame duration reaches the silence threshold: the utterances emitted are
\* as many as the points of the input where that happens, and none of them
\* is without a speech frame.
C11_FinalizedIffSpeechThenSilence ==
    seg.on =>
        /\ Len(seg.emitted) =
              Cardinality({n \in 1..Len(seg.fed) : Finalizes(seg.config, seg.fed, n)})
        /\ \A u \in 1..Len(seg.emitted) :
              \E i \in 1..Len(seg.emitted[u]) : seg.emitted[u][i].is_speech

\* leading silence was ignored and a later utterance was finalized, with a
\* threshold that is not a whole number of frames
C11_Witness ==
    /\ seg.on
    /\ seg.config = [FRAME_DURATION_MS |-> 20, SILENCE_DURATION_MS |-> 50]
    /\ Len(seg.fed) >= 2
    /\ ~seg.fed[1].is_speech
    /\ ~seg.fed[2].is_speech
    /\ Len(seg.emitted) = 1

\* 5 speech frames, then only silence frames, enough to reach the threshold
FiveThenSilence(config, fed) ==
    /\ Len(fed) >= 5 + SilenceFramesNeeded(config)
    /\ \A i \in 1..Len(fed) : fed[i].is_speech = (i <= 5)

SpeechPortion(utterance) ==
    SelectSeq(utterance, LAMBDA frame : frame.is_speech)

\* C12: for 5 speech frames followed by silence covering the threshold,
\* exactly one Utterance is emitted and its speech portion is exactly the 5
\* speech frames, in order.
C12_FiveSpeechFramesOneUtterance ==
    (seg.on /\ FiveThenSilence(seg.config, seg.fed)) =>
        /\ Len(seg.emitted) = 1
        /\ SpeechPortion(seg.emitted[1]) = [i \in 1..5 |-> AudioFrame(i, TRUE)]

\* the scenario with the longest threshold, and silence beyond it
C12_Witness ==
    /\ seg.on
    /\ seg.config = [FRAME_DURATION_MS |-> 20, SILENCE_DURATION_MS |-> 70]
    /\ FiveThenSilence(seg.config, seg.fed)
    /\ Len(seg.fed) = 9
    /\ Len(seg.emitted) = 1

(***************************************************************************)
(* StreamingSynthesizer and PlaybackSink, spec.md 4.5 and 4.6              *)
(* Neither is among the source files; both are modelled from spec.md.  A   *)
(* response is its sentence units 1..units after sanitization.  Each unit  *)
(* is synthesized on its own, one after the other or (the optional         *)
(* optimization) concurrently, so that units finish in any order.  A       *)
(* finished unit's AudioBuffer goes to the sink at once, tagged with its   *)
(* sequence index; a failed unit is logged and skipped.  The sink holds    *)
(* the buffers it cannot play yet in its reorder window and plays one      *)
(* buffer at a time.  finished and handed record the order in which        *)
(* synthesis ended and buffers reached the sink.                           *)
(***************************************************************************)
\* sentence units of a response
MaxUnits == 3

NOT_PLAYING == 0

new_response(units, failing, concurrent) ==
    [on |-> TRUE, units |-> units, failing |-> failing,
     concurrent |-> concurrent, pending |-> 1..units, window |-> {},
     skipped |-> {}, playing |-> NOT_PLAYING, played |-> << >>,
     finished |-> << >>]

\* the units whose text-to-speech call can return now
synthesizing(s) ==
    IF s.pending = {} THEN {}
    ELSE IF s.concurrent THEN s.pending
    ELSE {SetMin(s.pending)}

\* the AudioBuffer of unit i is handed to the sink as soon as it is ready
synthesis_succeeded(s, i) ==
    [s EXCEPT !.pending = @ \ {i},
              !.window = @ \cup {i},
              !.finished = Append(@, i)]

\* variant: the sink is not told that the unit will never come
synthesis_failed_silent(s, i) ==
    [s EXCEPT !.pending = @ \ {i},
              !.finished = Append(@, i)]

\* log and skip only that unit
synthesis_failed(s, i) ==
    [s EXCEPT !.pending = @ \ {i},
              !.skipped = @ \cup {i},
              !.finished = Append(@, i)]

\* the units the sink has neither played, nor is playing, nor was told to skip
outstanding(s) ==
    {i \in 1..s.units :
        /\ i \notin s.skipped
        /\ i # s.playing
        /\ \A k \in 1..Len(s.played) : s.played[k] # i}

\* variant: a buffer is played as soon as it arrives
playable_on_arrival(s) == s.window

\* the buffer the sink may start: the lowest outstanding index, once it is
\* in the reorder window
playable(s) ==
    IF outstanding(s) # {} /\ SetMin(outstanding(s)) \in s.window
    THEN {SetMin(outstanding(s))}
    ELSE {}

SynthInit ==
    /\ syn \in {new_response(units, failing, concurrent) :
                  units \in 1..MaxUnits,
                  failing \in SUBSET (1..MaxUnits),
                  concurrent \in BOOLEAN}
    /\ syn.failing \subseteq 1..syn.units
    /\ seg = OFF
    /\ tg = OFF
    /\ auth = OFF
    /\ inact = OFF
    /\ stream = OFF
    /\ otp = OFF
    /\ hist = OFF
    /\ poll = OFF
    /\ HandlersOff

\* a text-to-speech call returns audio
SynthesisSucceeds ==
    /\ \E i \in synthesizing(syn) :
          /\ i \notin syn.failing
          /\ syn' = synthesis_succeeded(syn, i)
    /\ UNCHANGED <<gvars, svars, seg, tg, auth, inact, stream, otp, hist, poll>>

\* a text-to-speech call fails
SynthesisFails ==
    /\ \E i \in synthesizing(syn) :
          /\ i \in syn.failing
          /\ syn' = synthesis_failed(syn, i)
    /\ UNCHANGED <<gvars, svars, seg, tg, auth, inact, stream, otp, hist, poll>>

\* the sink starts a buffer on the output device
StartPlayback ==
    /\ syn.playing = NOT_PLAYING
    /\ \E i \in playable(syn) :
          syn' = [syn EXCEPT !.playing = i, !.window = @ \ {i}]
    /\ UNCHANGED <<gvars, svars, seg, tg, auth, inact, stream, otp, hist, poll>>

\* the buffer has been played to its end
FinishPlayback ==
    /\ syn.playing # NOT_PLAYING
    /\ syn' = [syn EXCEPT !.played = Append(@, syn.playing),
                          !.playing = NOT_PLAYING]
    /\ UNCHANGED <<gvars, svars, seg, tg, auth, inact, stream, otp, hist, poll>>

SynthNext ==
    \/ SynthesisSucceeds
    \/ SynthesisFails
    \/ StartPlayback
    \/ FinishPlayback

SpecSynth == SynthInit /\ [][SynthNext]_vars

(***************************************************************************)
(* Claims on synthesis and playback (SpecSynth)                            *)
(***************************************************************************)
\* the units started on the output device so far, in the order of starting
Started(s) ==
    IF s.playing = NOT_PLAYING THEN s.played ELSE Append(s.played, s.playing)

Ascending(q) == \A i, j \in 1..Len(q) : i < j => q[i] < q[j]

\* nothing is being synthesized or played and nothing can be started
Drained(s) ==
    /\ s.pending = {}
    /\ s.playing = NOT_PLAYING
    /\ playable(s) = {}

\* C13: the buffers of a response are played in ascending sequence index,
\* in whatever order the synthesis of the units completes; once the
\* pipeline has drained, every unit that was synthesized has been played.
C13_PlayedInSentenceOrder ==
    syn.on =>
        /\ Ascending(Started(syn))
        /\ Drained(syn) =>
              /\ Len(syn.played) = Cardinality((1..syn.units) \ syn.failing)
              /\ \A k \in 1..Len(syn.played) : syn.played[k] \notin syn.failing

\* synthesis completed in the order 3, 2, 1 and playback was 1, 2, 3
C13_Witness ==
    /\ syn.on
    /\ syn.finished = <<3, 2, 1>>
    /\ syn.played = <<1, 2, 3>>

SecondOfThreeFails(s) == s.units = 3 /\ s.failing = {2}

\* C14: when the 2nd of 3 units fails, the sink plays units 1 and 3 in that
\* order and nothing else, and the pipeline does not stop before it has
\* played both.
C14_FailedUnitSkipped ==
    (syn.on /\ SecondOfThreeFails(syn)) =>
        /\ Started(syn) \in {<< >>, <<1>>, <<1, 3>>}
        /\ Drained(syn) => syn.played = <<1, 3>>

\* unit 3 was ready before unit 2 failed, and units 1 and 3 were played
C14_Witness ==
    /\ syn.on
    /\ SecondOfThreeFails(syn)
    /\ syn.finished = <<3, 1, 2>>
    /\ syn.played = <<1, 3>>

(***************************************************************************)
(* TelegramBotManager.handle_text_message, src/main.py                     *)
(* The handler is a coroutine: it gives up control at each await, which is *)
(* a step here.  The application handles one update at a time.  A call of  *)
(* the Telegram API may raise; inside the try block that leads to the      *)
(* except branch, which answers with the error text.  tg.sent is what the  *)
(* user has received, tg.turns what happened to each update.  The call id  *)
(* has the resolution of a second: a new call made in the second of an     *)
(* older one of the same user replaces it (add_conversation_entry).        *)
(***************************************************************************)
\* updates handled in one behaviour
MaxUpdates == 2

TelegramPhones == {"telegram_7"}

\* update.message.text
TelegramTexts == { <<"f", "i", "r", "e">> }

\* answers of the language model: failure, or two sentences and a tag
TelegramLLMOutcomes ==
    { LLM_RAISES,
      LLM_RETURNS(<<"G", "o", ".", " ", "R", "u", "n", ".", " ">> \o URGENCY_TAG
                    \o <<" ", "u", "r", "g", "e", "n", "t">> \o CLOSE) }

NO_VOICE_FILE == [made |-> FALSE, text |-> << >>, raised |-> FALSE]

\* variant: the exception of the synthesis is not caught
text_to_speech_raises(text, gtts_ok) ==
    IF gtts_ok THEN [made |-> TRUE, text |-> text, raised |-> FALSE]
    ELSE [made |-> FALSE, text |-> << >>, raised |-> TRUE]

\* variant: only the text up to the first full stop is synthesized
text_to_speech_first_sentence(text, gtts_ok) ==
    IF gtts_ok
    THEN [made |-> TRUE,
          text |-> IF Contains(text, <<".">>)
                   THEN Slice(text, 0, Find(text, <<".">>, 0) + 1) ELSE text,
          raised |-> FALSE]
    ELSE NO_VOICE_FILE

\* one gTTS file for the whole text, or None when anything in it raises
text_to_speech(text, gtts_ok) ==
    IF gtts_ok THEN [made |-> TRUE, text |-> text, raised |-> FALSE]
    ELSE NO_VOICE_FILE

TelegramMessage(kind, turn, content) ==
    [kind |-> kind, turn |-> turn, content |-> content]

TELEGRAM_ERROR_TEXT == <<"I'm experiencing technical difficulties. Please try again in a moment.">>

\* formatted_response: the answer, and the sources when there are any
formatted_response(aurora_response, sources) ==
    IF sources # << >> /\ Strip(sources) # << >>
    THEN aurora_response \o <<"\n\nSources:\n">> \o sources
    ELSE aurora_response

\* the record of the update being handled
ThisTurn(t) == Len(t.turns)

TelegramInit ==
    /\ tg = [on |-> TRUE, pc |-> "idle", user_text |-> << >>, phone_number |-> "",
             aurora_response |-> << >>, voice_file |-> NO_VOICE_FILE,
             sent |-> << >>, turns |-> << >>]
    /\ seg = OFF
    /\ syn = OFF
    /\ auth = OFF
    /\ inact = OFF
    /\ stream = OFF
    /\ otp = OFF
    /\ hist = OFF
    /\ poll = OFF
    /\ HandlersOff

\* an await of the Telegram API inside the try block
awaited(t, api_ok, next_pc) ==
    [t EXCEPT !.pc = IF api_ok THEN next_pc ELSE "except"]

TelegramUnchanged ==
    UNCHANGED <<gvars, conversations, archiving, last, ended, generated, turns,
                seg, syn, auth, inact, stream, otp, hist, poll>>

\* a text update arrives; the handler runs up to await send_action("typing")
handle_text_message_start ==
    /\ tg.pc = "idle"
    /\ Len(tg.turns) < MaxUpdates
    /\ \E user_text \in TelegramTexts, phone_number \in TelegramPhones :
          tg' = [tg EXCEPT !.pc = "typing",
                           !.user_text = user_text,
                           !.phone_number = phone_number,
                           !.aurora_response = << >>,
                           !.voice_file = NO_VOICE_FILE,
                           !.turns = Append(@, [user_text |-> user_text,
                                                aurora_response |-> << >>,
                                                recorded |-> FALSE,
                                                tts |-> "none"])]
    /\ UNCHANGED active_calls
    /\ TelegramUnchanged

\* send_action("typing") returns or raises; it is awaited before the try
\* block, so that its exception ends the handler
handle_text_message_typing ==
    /\ tg.pc = "typing"
    /\ \E api_ok \in BOOLEAN :
          tg' = [tg EXCEPT !.pc = IF api_ok THEN "respond" ELSE "idle"]
    /\ UNCHANGED active_calls
    /\ TelegramUnchanged

\* generate_response, add_conversation_entry, then await reply_text
handle_text_message_respond ==
    /\ tg.pc = "respond"
    /\ \E llm \in TelegramLLMOutcomes, fb_found \in BOOLEAN,
          time \in Seconds(active_calls), api_ok \in BOOLEAN :
          LET result == generate_response(<< >>, tg.user_text, llm)
              text == formatted_response(result.message, result.sources)
              answered == [tg EXCEPT !.aurora_response = result.message,
                                     !.turns[ThisTurn(tg)].aurora_response = result.message,
                                     !.turns[ThisTurn(tg)].recorded = TRUE]
          IN /\ active_calls' =
                    add_conversation_entry(active_calls, tg.phone_number, tg.user_text,
                                           result.message, result.urgency,
                                           result.sources, fb_found, time)
             /\ tg' = IF api_ok
                      THEN [answered EXCEPT
                              !.pc = "record_voice",
                              !.sent = Append(@, TelegramMessage("text", ThisTurn(tg), text))]
                      ELSE [answered EXCEPT !.pc = "except"]
    /\ TelegramUnchanged

\* send_action("record_voice") returns or raises
handle_text_message_record_voice ==
    /\ tg.pc = "record_voice"
    /\ \E api_ok \in BOOLEAN : tg' = awaited(tg, api_ok, "text_to_speech")
    /\ UNCHANGED active_calls
    /\ TelegramUnchanged

\* voice_file = await self.text_to_speech(aurora_response); if voice_file: ...
handle_text_message_text_to_speech ==
    /\ tg.pc = "text_to_speech"
    /\ \E gtts_ok \in BOOLEAN :
          LET voice_file == text_to_speech(tg.aurora_response, gtts_ok)
              noted == [tg EXCEPT !.voice_file = voice_file,
                                  !.turns[ThisTurn(tg)].tts =
                                      IF voice_file.made THEN "made" ELSE "failed"]
          IN tg' = [noted EXCEPT !.pc = IF voice_file.raised THEN "except"
                                        ELSE IF voice_file.made THEN "reply_voice"
                                        ELSE "idle"]
    /\ UNCHANGED active_calls
    /\ TelegramUnchanged

\* await reply_voice(voice=audio); os.remove(voice_file)
handle_text_message_reply_voice ==
    /\ tg.pc = "reply_voice"
    /\ \E api_ok \in BOOLEAN :
          tg' = IF api_ok
                THEN [tg EXCEPT !.pc = "idle",
                                !.sent = Append(@, TelegramMessage("voice", ThisTurn(tg),
                                                                   tg.voice_file.text))]
                ELSE [tg EXCEPT !.pc = "except"]
    /\ UNCHANGED active_calls
    /\ TelegramUnchanged

\* except Exception: await reply_text(error text), which may raise as well
handle_text_message_except ==
    /\ tg.pc = "except"
    /\ \E api_ok \in BOOLEAN :
          tg' = IF api_ok
                THEN [tg EXCEPT !.pc = "idle",
                                !.sent = Append(@, TelegramMessage("error", ThisTurn(tg),
                                                                   TELEGRAM_ERROR_TEXT))]
                ELSE [tg EXCEPT !.pc = "idle"]
    /\ UNCHANGED active_calls
    /\ TelegramUnchanged

TelegramNext ==
    \/ handle_text_message_start
    \/ handle_text_message_typing
    \/ handle_text_message_respond
    \/ handle_text_message_record_voice
    \/ handle_text_message_text_to_speech
    \/ handle_text_message_reply_voice
    \/ handle_text_message_except

SpecTelegram == TelegramInit /\ [][TelegramNext]_vars

(***************************************************************************)
(* Claims on the Telegram text handler (SpecTelegram)                      *)
(***************************************************************************)
\* sentence units of a text: its sentence-ending punctuation marks
SentenceUnits(text) ==
    Cardinality({i \in 1..Len(text) : text[i] \in {".", "!", "?"}})

SentOf(kind, turn) ==
    {k \in 1..Len(tg.sent) : tg.sent[k].kind = kind /\ tg.sent[k].turn = turn}

EntryRecorded(turn) ==
    \E id \in DOMAIN active_calls :
        \E k \in 1..(Len(active_calls[id].messages) - 1) :
            /\ active_calls[id].messages[k].role = "user"
            /\ active_calls[id].messages[k].content = tg.turns[turn].user_text
            /\ active_calls[id].messages[k + 1].role = "assistant"
            /\ active_calls[id].messages[k + 1].content = tg.turns[turn].aurora_response

\* the handler is not working on the update (it has returned)
Returned(turn) == turn < ThisTurn(tg) \/ tg.pc = "idle"

MaxLogins == 2

ACCESS_TOKEN_EXPIRE_HOURS == 24

\* the server runs in New York (winter), in UTC or in India
UtcOffsets == {-18000, 0, 19800}

\* the instants at which something happens: a login at 0 gives exp = 86400
AuthInstants == {0, 1, 68400, 68401, 86399, 86400, 86401}

AuthEndpoints == {"get_active_calls", "get_workers"}

create_access_token(admin_id, now) ==
    [sub |-> admin_id, type |-> "access", iat |-> now,
     exp |-> now + ACCESS_TOKEN_EXPIRE_HOURS * 3600]

\* jwt.decode raises ExpiredSignatureError
token_expired(token, now) == token.exp < now

\* redis_client.exists(f"blacklist:{token}") > 0
is_token_blacklisted(blacklist, token, now) ==
    token \in DOMAIN blacklist /\ now < blacklist[token]

\* int(datetime.utcnow().timestamp())
utcnow_timestamp(now, utc_offset) == now - utc_offset

\* setex with ttl = exp - current_time, when that is positive
blacklist_token(blacklist, token, exp, now, utc_offset) ==
    LET current_time == utcnow_timestamp(now, utc_offset)
        ttl == exp - current_time
    IN IF ttl > 0 THEN Put(blacklist, token, now + ttl) ELSE blacklist

\* the dependency of every authenticated endpoint: 401, or the token data
verify_access_token_with_blacklist(blacklist, token, now) ==
    IF is_token_blacklisted(blacklist, token, now) THEN 401
    ELSE IF token_expired(token, now) THEN 401
    ELSE IF token.type # "access" THEN 401
    ELSE 200

NO_AUTH_REQUEST ==
    [endpoint |-> "none", token |-> << >>, status |-> 0, after_logout |-> FALSE]

AuthRequest(endpoint, token, status) ==
    [endpoint |-> endpoint, token |-> token, status |-> status,
     after_logout |-> token \in auth.revoked]

AuthInit ==
    /\ auth \in [on : {TRUE}, utc_offset : UtcOffsets, now : {0}, issued : {{}},
                 blacklist : {<< >>}, revoked : {{}}, last : {NO_AUTH_REQUEST}]
    /\ seg = OFF
    /\ syn = OFF
    /\ tg = OFF
    /\ inact = OFF
    /\ stream = OFF
    /\ otp = OFF
    /\ hist = OFF
    /\ poll = OFF
    /\ HandlersOff

AuthUnchanged == UNCHANGED <<gvars, svars, seg, syn, tg, inact, stream, otp, hist, poll>>

\* POST /login with good credentials
login ==
    /\ Cardinality(auth.issued) < MaxLogins
    /\ LET access_token == create_access_token("admin_1", auth.now)
       IN auth' = [auth EXCEPT !.issued = @ \cup {access_token},
                               !.last = AuthRequest("login", access_token, 200)]
    /\ AuthUnchanged

\* any endpoint with Depends(verify_access_token_with_blacklist) but /logout
authenticated_request ==
    /\ \E endpoint \in AuthEndpoints, token \in auth.issued :
          auth' = [auth EXCEPT !.last =
                      AuthRequest(endpoint, token,
                                  verify_access_token_with_blacklist(auth.blacklist,
                                                                     token, auth.now))]
    /\ AuthUnchanged

\* POST /logout
logout ==
    /\ \E token \in auth.issued :
          LET verified == verify_access_token_with_blacklist(auth.blacklist, token,
                                                             auth.now)
              status == IF verified # 200 THEN verified
                        ELSE IF is_token_blacklisted(auth.blacklist, token, auth.now)
                        THEN 400
                        ELSE 200
          IN auth' = [auth EXCEPT
                        !.blacklist = IF status = 200
                                      THEN blacklist_token(@, token, token.exp, auth.now,
                                                           auth.utc_offset)
                                      ELSE @,
                        !.revoked = IF status = 200 THEN @ \cup {token} ELSE @,
                        !.last = AuthRequest("logout", token, status)]
    /\ AuthUnchanged

\* time passes
AuthClock ==
    /\ \E later \in AuthInstants :
          /\ later > auth.now
          /\ auth' = [auth EXCEPT !.now = later]
    /\ AuthUnchanged

AuthNext ==
    \/ login
    \/ authenticated_request
    \/ logout
    \/ AuthClock

SpecAuth == AuthInit /\ [][AuthNext]_vars

(***************************************************************************)
(* Claims on logout (SpecAuth)                                             *)
(***************************************************************************)
\* C17: after /logout has succeeded for a token, every later request that
\* presents the token to an authenticated endpoint, /logout included, is
\* rejected (while the token has not expired, which is when it could be
\* accepted at all).
C17_LogoutInvalidatesToken ==
    auth.on =>
        ~( /\ auth.last.endpoint \in AuthEndpoints \cup {"logout"}
           /\ auth.last.after_logout
           /\ auth.last.status = 200 )

(***************************************************************************)
(* TelegramInactivityManager.check_inactivity, src/main.py                 *)
(* inact.now is the local time in seconds; the store keeps the second in   *)
(* which a call was made (timestamp) and that of its latest exchange       *)
(* (last_message_at).  The scheduler runs the check every 60 seconds from  *)
(* an arbitrary start, so a check can meet any age.  A check looks at      *)
(* every call in the store, whatever its status.  end_call marks the call  *)
(* ENDED and starts its archive thread (archiving); inact.archive_threads  *)
(* counts, per call id, the archive threads started so far.  An archive    *)
(* thread that raises or hangs before its last step leaves the call in the *)
(* store: ArchiveAndCleanup need not happen.                               *)
(***************************************************************************)
\* exchanges recorded in one behaviour
MaxMessages == 2

\* runs of check_inactivity in one behaviour
MaxChecks == 2

TELEGRAM_INACTIVITY_TIMEOUT == 300

TELEGRAM_INACTIVITY_WARNING == 120

TELEGRAM_MAX_CONVERSATION_AGE == 86400

\* the instants at which something happens
InactivityInstants == {0, 1, 119, 120, 179, 180, 299, 300, 360, 86399, 86400}

\* who writes to the store: a Telegram user (medium Text), a caller (Voice)
InactivitySources ==
    { [phone_number |-> "telegram_7", medium |-> "Text"],
      [phone_number |-> "+15550001", medium |-> "Voice"] }

\* mobile_no.startswith('telegram_')
is_telegram_user(mobile_no) == mobile_no \in TelegramPhones

\* add_conversation_entry with the fields check_inactivity reads: a new call
\* gets timestamp, medium and last_message_at, an existing one a new
\* last_message_at
add_conversation_entry_at(calls, phone_number, user_query, aurora_response, urgency_level, sources, medium, fb_found, time) ==
    LET found == find_active_call_by_phone(calls, phone_number)
        existing == found # NO_CALL /\ fb_found
        call_id == IF existing THEN found ELSE _generate_call_id(phone_number, time)
        entered == add_conversation_entry(calls, phone_number, user_query,
                                          aurora_response, urgency_level,
                                          sources, fb_found, time)
    IN IF existing
       THEN [entered EXCEPT ![call_id].last_message_at = time]
       ELSE [entered EXCEPT ![call_id] =
                [timestamp |-> time, medium |-> medium, last_message_at |-> time]
                    @@ entered[call_id]]

\* variant: the timeout must be exceeded
inactivity_verdict_strict(call, now) ==
    LET time_since_last_message == now - call.last_message_at
        conversation_age == now - call.timestamp
    IN IF call.medium # "Text" \/ ~is_telegram_user(call.mobile_no) THEN "skip"
       ELSE IF conversation_age >= TELEGRAM_MAX_CONVERSATION_AGE THEN "end"
       ELSE IF time_since_last_message > TELEGRAM_INACTIVITY_TIMEOUT THEN "end"
       ELSE IF time_since_last_message >= TELEGRAM_INACTIVITY_WARNING THEN "warn"
       ELSE "none"

\* the branch the loop body takes for one call
inactivity_verdict(call, now) ==
    LET time_since_last_message == now - call.last_message_at
        conversation_age == now - call.timestamp
    IN IF call.medium # "Text" \/ ~is_telegram_user(call.mobile_no) THEN "skip"
       ELSE IF conversation_age >= TELEGRAM_MAX_CONVERSATION_AGE THEN "end"
       ELSE IF time_since_last_message >= TELEGRAM_INACTIVITY_TIMEOUT THEN "end"
       ELSE IF time_since_last_message >= TELEGRAM_INACTIVITY_WARNING THEN "warn"
       ELSE "none"

InactivityInit ==
    /\ inact = [on |-> TRUE, now |-> 0, warned_conversations |-> {},
                messages |-> 0, checks |-> 0, last_check |-> 0,
                archive_threads |-> << >>]
    /\ seg = OFF
    /\ syn = OFF
    /\ tg = OFF
    /\ auth = OFF
    /\ stream = OFF
    /\ otp = OFF
    /\ hist = OFF
    /\ poll = OFF
    /\ HandlersOff

InactivityUnchanged ==
    UNCHANGED <<gvars, conversations, last, ended, generated, turns,
                seg, syn, tg, auth, stream, otp, hist, poll>>

\* an exchange is recorded: a Telegram message or a turn of a phone call
InactivityMessage ==
    /\ inact.messages < MaxMessages
    /\ \E source \in InactivitySources, fb_found \in BOOLEAN :
          active_calls' =
              add_conversation_entry_at(active_calls, source.phone_number,
                                        <<"f", "i", "r", "e">>, FALLBACK_MESSAGE,
                                        CRITICAL, FALLBACK_SOURCES,
                                        source.medium, fb_found, inact.now)
    /\ inact' = [inact EXCEPT !.messages = @ + 1]
    /\ UNCHANGED archiving
    /\ InactivityUnchanged

\* one run of check_inactivity, 60 seconds or more after the one before
check_inactivity ==
    /\ inact.checks < MaxChecks
    /\ inact.checks = 0 \/ inact.now >= inact.last_check + 60
    /\ LET to_end == {id \in DOMAIN active_calls :
                         inactivity_verdict(active_calls[id], inact.now) = "end"}
           to_warn == {id \in DOMAIN active_calls :
                         inactivity_verdict(active_calls[id], inact.now) = "warn"}
       IN /\ active_calls' =
                 [id \in DOMAIN active_calls |->
                     IF id \in to_end THEN end_call(active_calls, id)[id]
                     ELSE active_calls[id]]
          /\ archiving' = archiving \cup to_end
          /\ inact' = [inact EXCEPT
                         !.warned_conversations = (@ \ to_end) \cup to_warn,
                         !.checks = @ + 1,
                         !.last_check = inact.now,
                         !.archive_threads =
                             [id \in DOMAIN @ \cup to_end |->
                                 (IF id \in DOMAIN @ THEN @[id] ELSE 0)
                                     + (IF id \in to_end THEN 1 ELSE 0)]]
    /\ InactivityUnchanged

\* time passes
InactivityClock ==
    /\ \E later \in InactivityInstants :
          /\ later > inact.now
          /\ inact' = [inact EXCEPT !.now = later]
    /\ UNCHANGED <<active_calls, archiving>>
    /\ InactivityUnchanged

\* ArchiveAndCleanup: the archive thread of an ended call drops it from the
\* store
InactivityNext ==
    \/ InactivityMessage
    \/ check_inactivity
    \/ InactivityClock
    \/ ArchiveAndCleanup

SpecInactivity == InactivityInit /\ [][InactivityNext]_vars

(***************************************************************************)
(* Claims on inactivity (SpecInactivity)                                   *)
(***************************************************************************)
CheckRan == inact'.checks # inact.checks

SinceLastMessage(id) == inact.now - active_calls[id].last_message_at

TelegramTextCall(id) ==
    /\ active_calls[id].medium = "Text"
    /\ is_telegram_user(active_calls[id].mobile_no)

\* C18: check_inactivity marks a conversation as warned only when at least
\* 180 seconds (3 minutes) have passed since its last message.
C18_WarningAfterThreeMinutes ==
    [][CheckRan =>
          \A id \in inact'.warned_conversations \ inact.warned_conversations :
              SinceLastMessage(id) >= 3 * 60]_vars

MaxEvents == 4

\* exchanges written to the conversation in one behaviour
MaxStreamMessages == 2

\* the conversation when the stream is opened: none, or one of no or one
\* exchange, or a long one of 4999 exchanges that the admin may see
StreamDatabases ==
    [conversation : BOOLEAN, messages : {0, 2}, call : BOOLEAN,
     has_access : BOOLEAN, written : {0}]
        \cup {[conversation |-> TRUE, messages |-> 9998, call |-> TRUE,
                has_access |-> TRUE, written |-> 0]}

\* str(n): the decimal digits of n
RECURSIVE Digits(_)
Digits(n) == IF n < 10 THEN <<n>> ELSE Append(Digits(n \div 10), n % 10)

\* f"msg_{...}_{message_count:04d}": the digits of the count, with zeros in
\* front up to four digits; the prefix is the same for all messages of a
\* conversation and is left out
_generate_msg_id(message_count) ==
    LET digits == Digits(message_count)
    IN IF Len(digits) < 4
       THEN [i \in 1..(4 - Len(digits)) |-> 0] \o digits
       ELSE digits

\* a < b for two str: by the first character that differs, else by length
str_less(a, b) ==
    LET shorter == IF Len(a) < Len(b) THEN Len(a) ELSE Len(b)
        differ == {k \in 1..shorter : a[k] # b[k]}
    IN IF differ = {} THEN Len(a) < Len(b)
       ELSE a[SetMin(differ)] < b[SetMin(differ)]

\* sorted(messages.items()) of a conversation of count messages, whose ids
\* are those of the counts 1..count
sorted_messages(count) ==
    SortSeq([i \in 1..count |-> _generate_msg_id(i)], str_less)

yield(s, event) == [s EXCEPT !.events = Append(@, event)]

\* variant: the loop goes on after the ended event of a missing conversation
after_conversation_ended_continue == "call_check"

\* yield ended; break
after_conversation_ended == "done"

\* except Exception: yield error
stream_error(s) == [yield(s, "error") EXCEPT !.pc = "done"]

\* the second half of a loop round: the call, then the heartbeat
event_generator_call_check(s, heartbeat_due) ==
    IF ~s.db.call THEN [yield(s, "ended") EXCEPT !.pc = "done"]
    ELSE IF heartbeat_due THEN [yield(s, "heartbeat") EXCEPT !.pc = "sleep"]
    ELSE [s EXCEPT !.pc = "sleep"]

\* a loop round after asyncio.sleep(1): it runs to its first yield, or
\* through to the next sleep
event_generator_poll(s, heartbeat_due) ==
    IF ~s.db.conversation
    THEN [yield(s, "ended") EXCEPT !.pc = after_conversation_ended]
    ELSE IF s.db.messages > s.last_message_count
    THEN [yield(s, "new_messages") EXCEPT
            !.pc = "call_check",
            !.delivered = @ \o Slice(sorted_messages(s.db.messages),
                                     s.last_message_count, s.db.messages),
            !.last_message_count = s.db.messages]
    ELSE event_generator_call_check(s, heartbeat_due)

StreamInit ==
    /\ stream \in [on : {TRUE}, pc : {"start"}, events : {<< >>},
                   delivered : {<< >>}, last_message_count : {0},
                   db : StreamDatabases]
    /\ seg = OFF
    /\ syn = OFF
    /\ tg = OFF
    /\ auth = OFF
    /\ inact = OFF
    /\ otp = OFF
    /\ hist = OFF
    /\ poll = OFF
    /\ HandlersOff

StreamUnchanged ==
    UNCHANGED <<gvars, svars, seg, syn, tg, auth, inact, otp, hist, poll>>

\* from the first line up to the initial event or an early error event
event_generator_start ==
    /\ stream.pc = "start"
    /\ \E raises \in BOOLEAN :
          stream' =
              IF raises THEN stream_error(stream)
              ELSE IF ~stream.db.conversation \/ ~stream.db.call
                      \/ ~stream.db.has_access
              THEN [yield(stream, "error") EXCEPT !.pc = "done"]
              ELSE [yield(stream, "initial") EXCEPT
                      !.pc = "sleep",
                      !.delivered = sorted_messages(stream.db.messages),
                      !.last_message_count = stream.db.messages]
    /\ StreamUnchanged

StreamPoll ==
    /\ stream.pc = "sleep"
    /\ Len(stream.events) < MaxEvents
    /\ \E raises \in BOOLEAN, heartbeat_due \in BOOLEAN :
          stream' = IF raises THEN stream_error(stream)
                    ELSE event_generator_poll(stream, heartbeat_due)
    /\ StreamUnchanged

StreamCallCheck ==
    /\ stream.pc = "call_check"
    /\ \E raises \in BOOLEAN, heartbeat_due \in BOOLEAN :
          stream' = IF raises THEN stream_error(stream)
                    ELSE event_generator_call_check(stream, heartbeat_due)
    /\ StreamUnchanged

\* add_conversation_entry's background update writes an exchange
DatabaseNewMessage ==
    /\ stream.db.conversation
    /\ stream.db.written < MaxStreamMessages
    /\ stream' = [stream EXCEPT !.db.messages = @ + 2, !.db.written = @ + 1]
    /\ StreamUnchanged

\* the archive thread deletes the call, then the conversation
DatabaseCallDeleted ==
    /\ stream.db.call
    /\ stream' = [stream EXCEPT !.db.call = FALSE]
    /\ StreamUnchanged

DatabaseConversationDeleted ==
    /\ ~stream.db.call
    /\ stream.db.conversation
    /\ stream' = [stream EXCEPT !.db.conversation = FALSE]
    /\ StreamUnchanged

StreamNext ==
    \/ event_generator_start
    \/ StreamPoll
    \/ StreamCallCheck
    \/ DatabaseNewMessage
    \/ DatabaseCallDeleted
    \/ DatabaseConversationDeleted

SpecStream == StreamInit /\ [][StreamNext]_vars

(***************************************************************************)
(* Claims on the event stream (SpecStream)                                 *)
(***************************************************************************)
\* C20: the first event of a stream is initial or error; new_messages and
\* heartbeat events come only after initial; ended and error are terminal:
\* no event follows them and the generator has finished.
C20_StreamProtocol ==
    stream.on =>
        LET events == stream.events
        IN /\ events # << >> => events[1] \in {"initial", "error"}
           /\ \A i \in 1..Len(events) :
                 /\ events[i] \in {"initial", "new_messages", "heartbeat",
                                   "ended", "error"}
                 /\ events[i] \in {"new_messages", "heartbeat"} =>
                       \E j \in 1..(i - 1) : events[j] = "initial"
                 /\ events[i] \in {"ended", "error"} => i = Len(events)
           /\ (events # << >> /\ events[Len(events)] \in {"ended", "error"})
                 <=> stream.pc = "done"

\* a stream with every kind of event before its end
C20_Witness ==
    /\ stream.on
    /\ stream.events = <<"initial", "new_messages", "heartbeat", "ended">>

(***************************************************************************)
(* /get-otp and /verify-otp, src/main.py                                   *)
(* otp.redis holds the otp:{email} keys: the value, the instant at which   *)
(* Redis drops the key, and a serial number that tells one stored OTP from *)
(* the next.  otp.last and otp.prev are the latest two /verify-otp         *)
(* requests, each with the key it found (found) and the instant (at), and  *)
(* otp.tokens lists the serials of the OTPs for which a temp token has     *)
(* been returned; serials and these three fields are not program state.    *)
(* Both handlers are coroutines without an await and the server is one     *)
(* process: a request is one step.  A call of Redis or of the mail service *)
(* may fail.                                                               *)
(***************************************************************************)
\* /verify-otp requests in one behaviour
MaxOtpRequests == 2

\* OTPs stored in one behaviour
MaxOtps == 2

\* store_otp_in_redis(email, otp, ttl=600)
OTP_TTL == 600

NO_KEY == [value |-> "", expires_at |-> 0, serial |-> 0]

\* redis_client.get(key): the key, or None (NO_KEY) once it is gone
redis_get(redis, key, now) ==
    IF key \in DOMAIN redis /\ now < redis[key].expires_at
    THEN redis[key]
    ELSE NO_KEY

\* variant: the key is left in place
redis_delete_nothing(redis, key) == redis

\* redis_client.delete(key)
redis_delete(redis, key) == Remove(redis, key)

\* redis_client.setex(f"otp:{email}", ttl, otp)
store_otp_in_redis(redis, email, value, ttl, now, serial) ==
    Put(redis, email, [value |-> value, expires_at |-> now + ttl, serial |-> serial])

NO_OTP_REQUEST == [email |-> "", otp |-> "", status |-> 0, found |-> NO_KEY, at |-> 0]

OtpInit ==
    /\ otp = [on |-> TRUE, now |-> 0, redis |-> << >>, stored |-> 0,
              requests |-> 0, tokens |-> << >>,
              last |-> NO_OTP_REQUEST, prev |-> NO_OTP_REQUEST]
    /\ seg = OFF
    /\ syn = OFF
    /\ tg = OFF
    /\ auth = OFF
    /\ inact = OFF
    /\ stream = OFF
    /\ hist = OFF
    /\ poll = OFF
    /\ HandlersOff

OtpUnchanged ==
    UNCHANGED <<gvars, svars, seg, syn, tg, auth, inact, stream, hist, poll>>

\* POST /get-otp: 400 for a registered email, 500 when the OTP cannot be
\* stored or sent (the key is then deleted, which may fail too), else 200
get_otp ==
    /\ otp.stored < MaxOtps
    /\ \E email \in {"a@x.io", "b@x.io"}, value \in {"111111", "222222"},
          fails \in {"nothing", "check_email_exists", "store_otp_in_redis",
                     "send_otp_email", "send_otp_email and delete"} :
          LET set == store_otp_in_redis(otp.redis, email, value, OTP_TTL,
                                        otp.now, otp.stored + 1)
          IN otp' =
                IF fails \in {"check_email_exists", "store_otp_in_redis"} THEN otp
                ELSE IF fails = "send_otp_email"
                THEN [otp EXCEPT !.redis = redis_delete(set, email), !.stored = @ + 1]
                ELSE [otp EXCEPT !.redis = set, !.stored = @ + 1]
    /\ OtpUnchanged

\* POST /verify-otp
verify_otp ==
    /\ otp.requests < MaxOtpRequests
    /\ \E email \in {"a@x.io", "b@x.io"}, value \in {"111111", "222222"},
          raises \in {"nothing", "get", "delete", "create_temp_token"} :
          LET stored_otp == redis_get(otp.redis, email, otp.now).value
              matches == stored_otp # "" /\ stored_otp = value
              status == IF raises = "get" THEN 500
                        ELSE IF ~matches THEN 400
                        ELSE IF raises = "nothing" THEN 200
                        ELSE 500
              deleted == matches /\ raises \in {"nothing", "create_temp_token"}
              found == IF email \in DOMAIN otp.redis THEN otp.redis[email] ELSE NO_KEY
          IN otp' = [otp EXCEPT
                       !.redis = IF deleted THEN redis_delete(@, email) ELSE @,
                       !.requests = @ + 1,
                       !.tokens = IF status = 200 THEN Append(@, found.serial) ELSE @,
                       !.prev = otp.last,
                       !.last = [email |-> email, otp |-> value, status |-> status,
                                 found |-> found, at |-> otp.now]]
    /\ OtpUnchanged

\* time passes
OtpClock ==
    /\ \E later \in {599, 600} :
          /\ later > otp.now
          /\ otp' = [otp EXCEPT !.now = later]
    /\ OtpUnchanged

OtpNext ==
    \/ get_otp
    \/ verify_otp
    \/ OtpClock

SpecOtp == OtpInit /\ [][OtpNext]_vars

(***************************************************************************)
(* Claims on OTPs (SpecOtp)                                                *)
(***************************************************************************)
\* a /verify-otp request that answered with a temp token
TokenIssued(request) == request.status = 200

\* request repeats earlier with no newer OTP stored for the email
Repeats(request, earlier) ==
    /\ request.email = earlier.email
    /\ request.otp = earlier.otp
    /\ request.found.serial <= earlier.found.serial

MaxArchived == 2

HistoryInit ==
    /\ hist = [on |-> TRUE, workers |-> << >>, calls |-> << >>,
               last |-> [endpoint |-> "none", admin_id |-> "", id |-> "",
                         status |-> 0]]
    /\ seg = OFF
    /\ syn = OFF
    /\ tg = OFF
    /\ auth = OFF
    /\ inact = OFF
    /\ stream = OFF
    /\ otp = OFF
    /\ poll = OFF
    /\ HandlersOff

HistoryUnchanged ==
    UNCHANGED <<gvars, svars, seg, syn, tg, auth, inact, stream, otp, poll>>

\* POST /api/workers: 409 for an existing worker, else the worker is the
\* admin's
create_worker ==
    /\ \E admin_id \in {"admin_1", "admin_2"}, mobile \in {"15550001", "15550002"} :
          hist' =
              IF mobile \in DOMAIN hist.workers
              THEN [hist EXCEPT !.last = [endpoint |-> "create_worker",
                                          admin_id |-> admin_id, id |-> mobile,
                                          status |-> 409]]
              ELSE [hist EXCEPT !.workers = Put(@, mobile, admin_id),
                                !.last = [endpoint |-> "create_worker",
                                          admin_id |-> admin_id, id |-> mobile,
                                          status |-> 201]]
    /\ HistoryUnchanged

\* DELETE /api/workers/{worker_id}
delete_worker ==
    /\ \E admin_id \in {"admin_1", "admin_2"}, worker_id \in {"15550001", "15550002"} :
          LET status == IF worker_id \notin DOMAIN hist.workers THEN 404
                        ELSE IF hist.workers[worker_id] # admin_id THEN 403
                        ELSE 200
          IN hist' = [hist EXCEPT
                        !.workers = IF status = 200 THEN Remove(@, worker_id) ELSE @,
                        !.last = [endpoint |-> "delete_worker", admin_id |-> admin_id,
                                  id |-> worker_id, status |-> status]]
    /\ HistoryUnchanged

\* a call of a phone ends and is archived: calls/{call_id} and its
\* conversation
_archive_call_to_firestore ==
    /\ Cardinality(DOMAIN hist.calls) < MaxArchived
    /\ \E mobile \in {"15550001", "15550002"} :
          LET call_id == Cardinality(DOMAIN hist.calls) + 1
          IN hist' = [hist EXCEPT
                        !.calls = Put(@, call_id, [worker_id |-> mobile,
                                                   conversation_id |-> call_id])]
    /\ HistoryUnchanged

\* GET /api/calls/{call_id}/conversation
get_call_conversation_history ==
    /\ \E admin_id \in {"admin_1", "admin_2"}, call_id \in 1..MaxArchived :
          LET exists == call_id \in DOMAIN hist.calls
              worker_id == hist.calls[call_id].worker_id
              status == IF ~exists THEN 404
                        ELSE IF /\ worker_id # ""
                                /\ worker_id \in DOMAIN hist.workers
                                /\ hist.workers[worker_id] # admin_id
                        THEN 403
                        ELSE 200
          IN hist' = [hist EXCEPT
                        !.last = [endpoint |-> "get_call_conversation_history",
                                  admin_id |-> admin_id, id |-> call_id,
                                  status |-> status]]
    /\ HistoryUnchanged

HistoryNext ==
    \/ create_worker
    \/ delete_worker
    \/ _archive_call_to_firestore
    \/ get_call_conversation_history

SpecHistory == HistoryInit /\ [][HistoryNext]_vars

(***************************************************************************)
(* Claims on archived conversations (SpecHistory)                          *)
(***************************************************************************)
\* admin_id manages the worker of the call
Manages(admin_id, call_id) ==
    LET worker_id == hist.calls[call_id].worker_id
    IN worker_id \in DOMAIN hist.workers /\ hist.workers[worker_id] = admin_id

\* C22: GET /api/calls/{call_id}/conversation returns the archived
\* conversation of a call (200) only to the admin who manages the call's
\* worker, and refuses every other admin with 403.
C22_ConversationOnlyForManager ==
    hist.on /\ hist.last.endpoint = "get_call_conversation_history"
            /\ hist.last.id \in DOMAIN hist.calls =>
        /\ hist.last.status = 200 => Manages(hist.last.admin_id, hist.last.id)
        /\ ~Manages(hist.last.admin_id, hist.last.id) => hist.last.status = 403

(***************************************************************************)
(* Claims on the messages of a stream (SpecStream)                         *)
(***************************************************************************)
\* C23: in an open stream the messages of the initial event followed by
\* those of the new_messages events are the messages of the conversation in
\* the order of their ids, each once: when the generator has caught up with
\* the conversation, every message id of the conversation has been
\* delivered, none twice, and each id delivered is greater than the one
\* before it.
C23_MessagesDeliveredOnceInOrder ==
    /\ stream.on
    /\ stream.pc \in {"sleep", "call_check"}
    /\ stream.last_message_count = stream.db.messages
    => /\ Len(stream.delivered) = stream.db.messages
       /\ {stream.delivered[k] : k \in 1..Len(stream.delivered)}
             = {_generate_msg_id(i) : i \in 1..stream.db.messages}
       /\ \A k \in 2..Len(stream.delivered) :
             str_less(stream.delivered[k - 1], stream.delivered[k])

(***************************************************************************)
(* Claims on archiving (SpecInactivity)                                    *)
(***************************************************************************)
\* C24: each call is archived at most once: for every call id the
\* archive-and-cleanup thread of end_call is started at most once, whatever
\* end triggers occur, repeated inactivity sweeps included.
C24_ArchivedAtMostOnce ==
    inact.on => \A id \in DOMAIN inact.archive_threads :
                    inact.archive_threads[id] <= 1

(***************************************************************************)
(* Claims on the active-calls store (Spec)                                 *)
(***************************************************************************)
\* C25: in every reachable state the local active-calls store holds at most
\* one call with status ACTIVE per phone number, also when the lookup in the
\* realtime database reports the existing call as missing.
C25_OneActiveCallPerPhone ==
    \A phone_number \in Phones :
        Cardinality(ActiveCallsOf(active_calls, phone_number)) <= 1

(***************************************************************************)
(* polling_loop, src/testing/telegram_api.py                               *)
(* poll.last_update_id is the global of that name, poll.updates the        *)
(* updates of the answer that the for loop has not reached yet.            *)
(* poll.pending is Telegram's queue of unconfirmed updates: getUpdates     *)
(* with an offset confirms (drops) the updates below it and answers with   *)
(* the others in ascending order; update ids are positive and grow.        *)
(* Not program state: poll.handed lists the update ids handed to           *)
(* process_message, poll.offsets the offset of each getUpdates request     *)
(* with the id of the update taken last before it (0 for none), and        *)
(* poll.raised says that handling a message has raised.                    *)
(***************************************************************************)
\* getUpdates requests in one behaviour
MaxPollRequests == 3

\* updates that reach Telegram in one behaviour
MaxPollUpdates == 3

\* variant: the offset is the id of the update taken
next_offset_same(update_id) == update_id

\* last_update_id = update["update_id"] + 1
next_offset(update_id) == update_id + 1

PollingInit ==
    /\ poll = [on |-> TRUE, pc |-> "get_updates", last_update_id |-> 0,
               updates |-> << >>, pending |-> {}, sent |-> 0, taken |-> 0,
               handed |-> << >>, offsets |-> << >>, raised |-> FALSE]
    /\ seg = OFF
    /\ syn = OFF
    /\ tg = OFF
    /\ auth = OFF
    /\ inact = OFF
    /\ stream = OFF
    /\ otp = OFF
    /\ hist = OFF
    /\ HandlersOff

PollingUnchanged ==
    UNCHANGED <<gvars, svars, seg, syn, tg, auth, inact, stream, otp, hist>>

\* a user sends a message to the bot, or edits one
TelegramUpdateArrives ==
    /\ poll.sent < MaxPollUpdates
    /\ \E kind \in {"message", "edited_message"} :
          poll' = [poll EXCEPT
                     !.sent = @ + 1,
                     !.pending = @ \cup {[update_id |-> poll.sent + 1, kind |-> kind]}]
    /\ PollingUnchanged

\* result = await get_updates(offset=last_update_id): the offset is sent
\* unless it is 0; a failed request gives {"ok": False, "result": []}
get_updates ==
    /\ poll.pc = "get_updates"
    /\ Len(poll.offsets) < MaxPollRequests
    /\ \E request_ok \in BOOLEAN :
          LET offset == poll.last_update_id
              unconfirmed == IF offset # 0
                             THEN {u \in poll.pending : u.update_id >= offset}
                             ELSE poll.pending
              ids == {u.update_id : u \in unconfirmed}
              ascending == [k \in 1..Cardinality(unconfirmed) |->
                              CHOOSE u \in unconfirmed :
                                  Cardinality({i \in ids : i < u.update_id}) = k - 1]
              noted == [poll EXCEPT
                          !.offsets = Append(@, [offset |-> offset,
                                                 after |-> poll.taken])]
          IN poll' = IF request_ok
                     THEN [noted EXCEPT
                             !.pending = unconfirmed,
                             !.updates = ascending,
                             !.pc = IF ascending = << >> THEN "get_updates"
                                    ELSE "for"]
                     ELSE noted
    /\ PollingUnchanged

\* one round of the for loop: the offset moves past the update, then the
\* message is processed; when that raises the loop starts over
polling_loop ==
    /\ poll.pc = "for"
    /\ \E raises \in BOOLEAN :
          LET update == Head(poll.updates)
              took == [poll EXCEPT
                         !.last_update_id = next_offset(update.update_id),
                         !.taken = update.update_id,
                         !.handed = Append(@, update.update_id)]
          IN poll' = IF raises
                     THEN [took EXCEPT !.updates = << >>, !.pc = "get_updates",
                                       !.raised = TRUE]
                     ELSE [took EXCEPT !.updates = Tail(@),
                                       !.pc = IF Tail(poll.updates) = << >>
                                              THEN "get_updates" ELSE "for"]
    /\ PollingUnchanged

PollingNext ==
    \/ TelegramUpdateArrives
    \/ get_updates
    \/ polling_loop

SpecPolling == PollingInit /\ [][PollingNext]_vars

(***************************************************************************)
(* Claims on the polling loop (SpecPolling)                                *)
(***************************************************************************)
\* C26: the offsets of the getUpdates requests never decrease, every update
\* is handed to process_message at most once, and a request that follows
\* the taking of update u uses offset u + 1, also after the handling of a
\* message has raised.
C26_OffsetAdvances ==
    poll.on =>
        /\ \A i, j \in 1..Len(poll.offsets) :
              i <= j => poll.offsets[i].offset <= poll.offsets[j].offset
        /\ \A i, j \in 1..Len(poll.handed) :
              poll.handed[i] = poll.handed[j] => i = j
        /\ \A i \in 1..Len(poll.offsets) :
              poll.offsets[i].after # 0 =>
                  poll.offsets[i].offset = poll.offsets[i].after + 1

\* the handling of update 1 raised while update 2 was in the same answer;
\* the loop has asked again with offset 2 and has taken update 2
C26_Witness ==
    /\ poll.on
    /\ poll.raised
    /\ poll.handed = <<1, 2>>
    /\ Len(poll.offsets) = 2
    /\ poll.offsets[2] = [offset |-> 2, after |-> 1]

====
